---- MODULE Spec2Model ----
(***************************************************************************)
(* Model of src/app.py: the Telegram handler TelegramBot.handle_url and    *)
(* the YouTubeMusicDownloader it drives.                                   *)
(*                                                                         *)
(* handle_url is a coroutine.  Several invocations (one per incoming       *)
(* message) are interleaved by the event loop, and an invocation gives up  *)
(* control only where it awaits a Telegram call (reply_text, edit_text,    *)
(* reply_audio, delete).  Each action below therefore runs one invocation  *)
(* from the point where such a call returns (or raises) to the next such   *)
(* call.  extract_video_info is a plain function and download_audio /      *)
(* download_lower_quality contain no await of an I/O call, so they run     *)
(* inside the action that reaches them.                                    *)
(***************************************************************************)
EXTENDS Integers, Sequences, FiniteSets, TLC

(* ---------------------------------------------------------------------- *)
(* Bounds of the model                                                     *)
(* ---------------------------------------------------------------------- *)
\* number of messages handled in one behaviour; every message gets its own
\* handle_url invocation, and any number of them can be in flight at once
MaxRuns == 2

Tasks == 1..MaxRuns

(* ---------------------------------------------------------------------- *)
(* Program constants and input domains                                     *)
(* ---------------------------------------------------------------------- *)
MiB == 1024 * 1024
MAX_FILE_SIZE == 50 * 1024 * 1024
MAX_DURATION == 1800
DEFAULT_QUALITY == 192
LOWER_QUALITY == 128

\* requesters; ALLOWED_USER_IDS is the configured allow-list
Users == {"u1", "u2", "u3"}
ALLOWED_USER_IDS == {"u1", "u2"}

\* None, and the value of info['duration'] when the extractor reports None
None == [tag |-> "none", dir |-> 0, name |-> ""]
NoDuration == -1
Durations == {1800, 1801, NoDuration}

\* sizes an extraction can produce
Sizes == {45 * MiB, 50 * MiB, 60 * MiB}

(* ---------------------------------------------------------------------- *)
(* Error texts and their classification                                    *)
(* A text is a sequence of fragments; "x in str(e)" is containment of a    *)
(* fragment, str.lower() maps every fragment to lower case.                *)
(* ---------------------------------------------------------------------- *)
ErrSignIn == <<"ERROR:", "Sign in to confirm", "your age">>
ErrAgeRestricted == <<"ERROR:", "This video is", "Age-Restricted">>
ErrUnavailable == <<"ERROR:", "Video unavailable">>
ErrTexts == {ErrSignIn, ErrAgeRestricted, ErrUnavailable}

LowerFragment(w) ==
    CASE w = "ERROR:" -> "error:"
      [] w = "Sign in to confirm" -> "sign in to confirm"
      [] w = "This video is" -> "this video is"
      [] w = "Age-Restricted" -> "age-restricted"
      [] w = "Video unavailable" -> "video unavailable"
      [] OTHER -> w

Lower(text) == [i \in DOMAIN text |-> LowerFragment(text[i])]

Contains(text, w) == \E i \in DOMAIN text : text[i] = w

\* "Sign in to confirm" in str(e) or "age-restricted" in str(e).lower()
IsAgeRestricted(text) ==
    Contains(text, "Sign in to confirm") \/ Contains(Lower(text), "age-restricted")

(* ---------------------------------------------------------------------- *)
(* URL texts and TelegramBot._is_valid_youtube_url                         *)
(* A text is scheme \o host \o rest; rest is a sequence of characters.     *)
(* ---------------------------------------------------------------------- *)
SlashWatch == <<"/", "w", "a", "t", "c", "h", "?", "v", "=">>
VideoId == <<"d", "Q", "w", "4", "w", "9", "W", "g", "X", "c", "Q">>
ShortId == <<"s", "h", "o", "r", "t">>
PlainText == <<"n", "o", "t", " ", "a", " ", "u", "r", "l">>
LongId == VideoId \o <<"X">>
FeedPath == <<"/", "f", "e", "e", "d", "/", "s", "u", "b", "s", "c", "r", "i", "p",
              "t", "i", "o", "n", "s">>

UrlWatch == [scheme |-> "https://", host |-> "www.youtube.com", rest |-> SlashWatch \o VideoId]
UrlMusic == [scheme |-> "https://", host |-> "music.youtube.com", rest |-> SlashWatch \o VideoId]
UrlShortId == [scheme |-> "https://", host |-> "youtube.com", rest |-> SlashWatch \o ShortId]
UrlNotAUrl == [scheme |-> "", host |-> "", rest |-> PlainText]
UrlYoutuBe == [scheme |-> "https://", host |-> "youtu.be", rest |-> <<"/">> \o VideoId]
UrlLongId == [scheme |-> "https://", host |-> "www.youtube.com", rest |-> SlashWatch \o LongId]
UrlMissingId == [scheme |-> "https://", host |-> "youtube.com", rest |-> SlashWatch]
UrlFeed == [scheme |-> "https://", host |-> "www.youtube.com", rest |-> FeedPath]
NoUrl == [scheme |-> "", host |-> "", rest |-> <<>>]

\* the message texts: those of the pipeline specification, and watch URLs
\* with a longer identifier, with none, and a page URL without identifier
Urls == {UrlWatch, UrlMusic, UrlYoutuBe, UrlShortId, UrlNotAUrl,
         UrlLongId, UrlMissingId, UrlFeed}

\* (www\.)?(youtube|youtu)\.(com|be)
YoutubeHosts ==
    {"www.youtube.com", "youtube.com", "www.youtu.be", "youtu.be",
     "www.youtube.be", "youtube.be", "www.youtu.com", "youtu.com"}

\* s[from..] starts with p
HasPrefixAt(s, from, p) ==
    /\ Len(s) >= from + Len(p) - 1
    /\ \A i \in 1..Len(p) : s[from + i - 1] = p[i]

\* {11} characters of s from position k, none of them in the set excluded
ElevenFrom(s, k, excluded) ==
    /\ Len(s) >= k + 10
    /\ \A i \in k..(k + 10) : s[i] \notin excluded

\* positions where the optional group (watch\?v=|embed/|v/|.+\?v=)? can end,
\* as the position of the first character after it
GroupEnds(s) ==
    {2}
    \cup {2 + Len(p) : p \in {q \in {<<"w", "a", "t", "c", "h", "?", "v", "=">>,
                                      <<"e", "m", "b", "e", "d", "/">>,
                                      <<"v", "/">>} : HasPrefixAt(s, 2, q)}}
    \cup {k \in 6..(Len(s) + 1) : HasPrefixAt(s, k - 3, <<"?", "v", "=">>)}

\* re.match(youtube_regex, url): anchored at the start only
MatchesYoutubeRegex(url) ==
    /\ url.scheme \in {"", "http://", "https://"}
    /\ url.host \in YoutubeHosts
    /\ Len(url.rest) >= 1
    /\ url.rest[1] = "/"
    /\ \E k \in GroupEnds(url.rest) : ElevenFrom(url.rest, k, {"&", "=", "%", "?"})

\* re.match(youtube_music_regex, url)
MatchesMusicRegex(url) ==
    /\ url.scheme \in {"http://", "https://"}
    /\ url.host = "music.youtube.com"
    /\ HasPrefixAt(url.rest, 1, SlashWatch)
    /\ ElevenFrom(url.rest, 1 + Len(SlashWatch), {"&"})

is_valid_youtube_url(url) == MatchesYoutubeRegex(url) \/ MatchesMusicRegex(url)

\* ALLOWED_USER_IDS and user_id not in ALLOWED_USER_IDS
NotAuthorizedNever(u) == FALSE

NotAuthorized(u) == ALLOWED_USER_IDS # {} /\ u \notin ALLOWED_USER_IDS

(* ---------------------------------------------------------------------- *)
(* Scratch directories: a directory is a set of files [name, size]        *)
(* ---------------------------------------------------------------------- *)
Mp3Names == {"title.mp3", "compressed_title.mp3"}
PartFile == [name |-> "title.webm.part", size |-> 1 * MiB]

\* what one run of ydl.extract_info(url, download=True) can do: leave an mp3
\* and a leftover file, leave nothing, or raise and leave a partial file
ExtractOutcomes ==
    [kind : {"file"}, size : Sizes, junk : {TRUE}, text : {<<>>}]
    \cup [kind : {"nofile"}, size : {0}, junk : {FALSE}, text : {<<>>}]
    \cup [kind : {"raise"}, size : {0}, junk : {TRUE}, text : ErrTexts]

NotRun == [kind |-> "notrun", size |-> 0, junk |-> FALSE, text |-> <<>>]

\* the files in a directory after an extraction with output template name
RunExtraction(files, name, x) ==
    files
    \cup (IF x.kind = "file" THEN {[name |-> name, size |-> x.size]} ELSE {})
    \cup (IF x.junk THEN {PartFile} ELSE {})

\* Path(temp_dir).glob("*.mp3")
GlobMp3(files) == {f \in files : f.name \in Mp3Names}

PathOf(d, f) == [tag |-> "path", dir |-> d, name |-> f.name]
StrResult(s) == [tag |-> s, dir |-> 0, name |-> ""]
IsPath(r) == r.tag = "path"

ExceedsLimitAlways(size) == TRUE

ExceedsLimitLoose(size) == size > MAX_FILE_SIZE + 10 * MiB

\* file_size > MAX_FILE_SIZE
ExceedsLimit(size) == size > MAX_FILE_SIZE

\* the finally block of download_audio: unlink every file but output_path
Cleanup(files, output_path) == {f \in files : ~(f # output_path)}

\* download_lower_quality: the possible [ret, files] results; downloaded_files[0]
\* is whichever mp3 the directory listing yields first
download_lower_quality(d, files, x2) ==
    LET after == RunExtraction(files, "compressed_title.mp3", x2)
    IN  IF x2.kind = "raise"
        THEN {[ret |-> None, files |-> after]}
        ELSE IF GlobMp3(after) = {}
             THEN {[ret |-> None, files |-> after]}
             ELSE {[ret |-> IF ExceedsLimit(output_path.size)
                            THEN StrResult("file_too_large")
                            ELSE PathOf(d, output_path),
                    files |-> after] : output_path \in GlobMp3(after)}

\* an exception that leaves download_audio, as seen by the caller's await
Propagates(ret) == ret.tag = "raised"

download_audio_uncaught(d, x1, x2) ==
    LET after == RunExtraction({}, "title.mp3", x1)
    IN  IF x1.kind = "raise"
        THEN {[ret |-> StrResult("raised"), files |-> after, lowered |-> FALSE]}
        ELSE IF GlobMp3(after) = {}
             THEN {[ret |-> None, files |-> after, lowered |-> FALSE]}
             ELSE LET output_path == CHOOSE f \in GlobMp3(after) : TRUE
                  IN  IF ExceedsLimit(output_path.size)
                      THEN {[ret |-> r.ret,
                             files |-> Cleanup(r.files, output_path),
                             lowered |-> TRUE] :
                                r \in download_lower_quality(d, after, x2)}
                      ELSE {[ret |-> PathOf(d, output_path),
                             files |-> Cleanup(after, output_path),
                             lowered |-> FALSE]}

\* download_audio in a fresh directory d: the possible [ret, files, lowered]
\* results; lowered tells whether download_lower_quality ran
download_audio(d, x1, x2) ==
    LET after == RunExtraction({}, "title.mp3", x1)
    IN  IF x1.kind = "raise"
        THEN {[ret |-> IF IsAgeRestricted(x1.text)
                       THEN StrResult("age_restricted") ELSE None,
               files |-> after, lowered |-> FALSE]}
        ELSE IF GlobMp3(after) = {}
             THEN {[ret |-> None, files |-> after, lowered |-> FALSE]}
             ELSE LET output_path == CHOOSE f \in GlobMp3(after) : TRUE
                  IN  IF ExceedsLimit(output_path.size)
                      THEN {[ret |-> r.ret,
                             files |-> Cleanup(r.files, output_path),
                             lowered |-> TRUE] :
                                r \in download_lower_quality(d, after, x2)}
                      ELSE {[ret |-> PathOf(d, output_path),
                             files |-> Cleanup(after, output_path),
                             lowered |-> FALSE]}

\* os.path.exists(audio_file)
PathExists(filesys, p) ==
    /\ IsPath(p)
    /\ p.dir \in DOMAIN filesys
    /\ \E f \in filesys[p.dir] : f.name = p.name

SizeOf(filesys, p) == (CHOOSE f \in filesys[p.dir] : f.name = p.name).size

\* shutil.rmtree(d, ignore_errors=True)
RmTree(filesys, d) == [e \in DOMAIN filesys \ {d} |-> filesys[e]]

\* tempfile.mkdtemp() returning the fresh name d
MkDtemp(filesys, d) == [e \in DOMAIN filesys \cup {d} |-> IF e = d THEN {} ELSE filesys[e]]

(* ---------------------------------------------------------------------- *)
(* YouTubeMusicDownloader.extract_video_info                               *)
(* ---------------------------------------------------------------------- *)
\* what ydl.extract_info(url, download=False) can do
MetaOutcomes ==
    [kind : {"info"}, duration : Durations, text : {<<>>}]
    \cup [kind : {"raise"}, duration : {0}, text : ErrTexts]

AGE_RESTRICTED == <<"age_restricted">>
AGE_MESSAGE == <<"Age-restricted content. Cookies.txt required.">>

\* the dict extract_video_info returns
extract_video_info(m) ==
    IF m.kind = "info"
    THEN [title |-> <<"Title">>, uploader |-> <<"Artist">>, duration |-> m.duration]
    ELSE IF IsAgeRestricted(m.text)
         THEN [error |-> AGE_RESTRICTED, message |-> AGE_MESSAGE]
         ELSE [error |-> m.text]

(* ---------------------------------------------------------------------- *)
(* State                                                                   *)
(* ---------------------------------------------------------------------- *)
VARIABLES
    active_downloads,   \* keys of TelegramBot.active_downloads
    bot_status,         \* bot_status["active_downloads"], ["downloads_processed"]
    preferredquality,   \* ydl_opts['postprocessors'][0]['preferredquality']
    filesys,            \* the temporary directories that exist, with their files
    pc,                 \* per invocation: the call it is awaiting
    user_id,            \* per invocation: local user_id
    video_info,         \* per invocation: local video_info
    audio_file,         \* per invocation: local audio_file
    temp_dir,           \* per invocation: local temp_dir of handle_url
    hist                \* per invocation: what the run has done so far

vars == <<active_downloads, bot_status, preferredquality, filesys, pc, user_id,
          video_info, audio_file, temp_dir, hist>>

NoUser == ""
NoDir == 0
NoInfo == <<>>

\* tempfile.mkdtemp() names: one per call, never reused
HandlerDir(t) == 2 * t - 1
DownloadDir(t) == 2 * t

BlankHist ==
    [acquired |-> FALSE, exit |-> "", raised |-> FALSE, fault |-> FALSE,
     metaCalls |-> 0, dlCalls |-> 0, extractCalls |-> 0, sendCalls |-> 0,
     sentSize |-> 0, x1 |-> NotRun, x2 |-> NotRun, q1 |-> 0, metaText |-> <<>>,
     url |-> NoUrl]

\* what is remembered of a run once handle_url has returned
EndedHist(h, exit, raised) ==
    [BlankHist EXCEPT !.acquired = h.acquired, !.exit = exit, !.raised = raised]

\* what is remembered of a run once its except clause is entered
FaultHist(h) ==
    [BlankHist EXCEPT !.acquired = h.acquired, !.fault = TRUE,
                      !.metaCalls = h.metaCalls, !.dlCalls = h.dlCalls,
                      !.extractCalls = h.extractCalls, !.sendCalls = h.sendCalls]

Init ==
    /\ active_downloads = {}
    /\ bot_status = [active_downloads |-> 0, downloads_processed |-> 0]
    /\ preferredquality = DEFAULT_QUALITY
    /\ filesys = <<>>
    /\ pc = [t \in Tasks |-> "idle"]
    /\ user_id = [t \in Tasks |-> NoUser]
    /\ video_info = [t \in Tasks |-> NoInfo]
    /\ audio_file = [t \in Tasks |-> None]
    /\ temp_dir = [t \in Tasks |-> NoDir]
    /\ hist = [t \in Tasks |-> BlankHist]

(* ---------------------------------------------------------------------- *)
(* Pieces of handle_url shared by its steps                                *)
(* ---------------------------------------------------------------------- *)
IsBusyNever(u) == FALSE

IsBusyGlobal(u) == active_downloads # {}

\* user_id in self.active_downloads
IsBusy(u) == u \in active_downloads

\* self.active_downloads[user_id] = True
Acquire(held, u) == held \cup {u}

ReleaseNothing(held, u) == held

FinallyDeletesAlways(held, u) == TRUE

FinallyDeletesNever(held, u) == FALSE

\* line 551: the finally block deletes the entry only when it is present
FinallyDeletes(held, u) == u \in held

\* line 552 raises KeyError when it deletes an entry that is absent
ReleaseRaises(held, u) == FinallyDeletes(held, u) /\ u \notin held

ReleaseClears(held, u) == {}

\* the outer finally: if user_id in self.active_downloads: del ...
Release(held, u) == IF FinallyDeletes(held, u) THEN held \ {u} ELSE held

PublishedStale(held) == bot_status

\* bot_status["active_downloads"] = len(self.active_downloads)
Published(held) == [bot_status EXCEPT !.active_downloads = Cardinality(held)]

\* handle_url returns (or lets an exception out) after the outer finally
Finish(t, held, status, fsys, exit, raised) ==
    /\ active_downloads' = Release(held, user_id[t])
    /\ bot_status' = IF user_id[t] \in held
                     THEN [status EXCEPT
                             !.active_downloads = Cardinality(Release(held, user_id[t]))]
                     ELSE status
    /\ filesys' = fsys
    /\ pc' = [pc EXCEPT ![t] = "done"]
    /\ hist' = [hist EXCEPT ![t] =
                  EndedHist(hist[t], exit, raised \/ ReleaseRaises(held, user_id[t]))]
    /\ video_info' = [video_info EXCEPT ![t] = NoInfo]
    /\ audio_file' = [audio_file EXCEPT ![t] = None]
    /\ temp_dir' = [temp_dir EXCEPT ![t] = NoDir]
    /\ UNCHANGED <<preferredquality, user_id>>

\* an exception reaches "except Exception": reply_text at line 549 is awaited
Except(t, fsys) ==
    /\ pc' = [pc EXCEPT ![t] = "reply_error"]
    /\ hist' = [hist EXCEPT ![t] = FaultHist(hist[t])]
    /\ filesys' = fsys
    /\ UNCHANGED <<active_downloads, bot_status, preferredquality, user_id,
                   video_info, audio_file, temp_dir>>

(* ---------------------------------------------------------------------- *)
(* handle_url, one action per stretch between two awaited Telegram calls   *)
(* Every awaited call either returns (ok) or raises (~ok).                 *)
(* ---------------------------------------------------------------------- *)

\* lines 458-475: a message arrives and handle_url runs to its first await
Receive(t) ==
    /\ pc[t] = "idle"
    /\ IF t = 1 THEN TRUE ELSE pc[t - 1] # "idle"
    /\ \E u \in Users, url \in Urls :
        /\ user_id' = [user_id EXCEPT ![t] = u]
        /\ IF NotAuthorized(u)
           THEN /\ pc' = [pc EXCEPT ![t] = "reply_unauthorized"]
                /\ UNCHANGED <<active_downloads, bot_status, hist>>
           ELSE IF ~is_valid_youtube_url(url)
           THEN /\ pc' = [pc EXCEPT ![t] = "reply_invalid"]
                /\ hist' = [hist EXCEPT ![t].url = url]
                /\ UNCHANGED <<active_downloads, bot_status>>
           ELSE IF IsBusy(u)
           THEN /\ pc' = [pc EXCEPT ![t] = "reply_busy"]
                /\ hist' = [hist EXCEPT ![t].url = url]
                /\ UNCHANGED <<active_downloads, bot_status>>
           ELSE /\ active_downloads' = Acquire(active_downloads, u)
                /\ bot_status' = Published(Acquire(active_downloads, u))
                /\ hist' = [hist EXCEPT ![t].acquired = TRUE, ![t].url = url]
                /\ pc' = [pc EXCEPT ![t] = "reply_processing"]
    /\ UNCHANGED <<preferredquality, filesys, video_info, audio_file, temp_dir>>

RejectedThroughFinally(t) ==
    /\ pc[t] \in {"reply_unauthorized", "reply_invalid", "reply_busy"}
    /\ \E ok \in BOOLEAN :
        /\ pc' = [pc EXCEPT ![t] = "done"]
        /\ hist' = [hist EXCEPT ![t] =
                      EndedHist(hist[t],
                                CASE pc[t] = "reply_unauthorized" -> "unauthorized"
                                  [] pc[t] = "reply_invalid" -> "invalid"
                                  [] OTHER -> "busy",
                                ~ok)]
    /\ active_downloads' = Release(active_downloads, user_id[t])
    /\ bot_status' = Published(Release(active_downloads, user_id[t]))
    /\ UNCHANGED <<preferredquality, filesys,
                   user_id, video_info, audio_file, temp_dir>>

\* lines 461-462, 467-468, 471-472: the reply is sent and handle_url returns;
\* these returns are outside the try, so no finally runs
Rejected(t) ==
    /\ pc[t] \in {"reply_unauthorized", "reply_invalid", "reply_busy"}
    /\ \E ok \in BOOLEAN :
        /\ pc' = [pc EXCEPT ![t] = "done"]
        /\ hist' = [hist EXCEPT ![t] =
                      EndedHist(hist[t],
                                CASE pc[t] = "reply_unauthorized" -> "unauthorized"
                                  [] pc[t] = "reply_invalid" -> "invalid"
                                  [] OTHER -> "busy",
                                ~ok)]
    /\ UNCHANGED <<active_downloads, bot_status, preferredquality, filesys,
                   user_id, video_info, audio_file, temp_dir>>

\* line 478 returns; line 480 is awaited.  The text is handed on to the
\* fetchers, whose outcomes are drawn whatever it is, so it is not kept.
Processing(t) ==
    /\ pc[t] = "reply_processing"
    /\ \E ok \in BOOLEAN :
        IF ok
        THEN /\ pc' = [pc EXCEPT ![t] = "edit_fetching"]
             /\ hist' = [hist EXCEPT ![t].url = NoUrl]
             /\ UNCHANGED <<active_downloads, bot_status, preferredquality, filesys,
                            user_id, video_info, audio_file, temp_dir>>
        ELSE Except(t, filesys)

AfterInfoNoCheck(vi) ==
    IF "error" \in DOMAIN vi
    THEN IF vi.error = AGE_RESTRICTED THEN "edit_age_restricted" ELSE "edit_meta_error"
    ELSE IF DOMAIN vi = {}
    THEN "edit_no_info"
    ELSE "edit_info"

AfterInfoInclusive(vi) ==
    IF "error" \in DOMAIN vi
    THEN IF vi.error = AGE_RESTRICTED THEN "edit_age_restricted" ELSE "edit_meta_error"
    ELSE IF DOMAIN vi = {}
    THEN "edit_no_info"
    ELSE IF vi.duration = NoDuration
    THEN "fault"
    ELSE IF vi.duration >= MAX_DURATION
    THEN "edit_too_long"
    ELSE "edit_info"

\* the call awaited after extract_video_info returned vi (lines 483-513);
\* "fault" stands for the TypeError of None > 1800
AfterInfo(vi) ==
    IF "error" \in DOMAIN vi
    THEN IF vi.error = AGE_RESTRICTED THEN "edit_age_restricted" ELSE "edit_meta_error"
    ELSE IF DOMAIN vi = {}
    THEN "edit_no_info"
    ELSE IF vi.duration = NoDuration
    THEN "fault"
    ELSE IF vi.duration > MAX_DURATION
    THEN "edit_too_long"
    ELSE "edit_info"

\* line 480 returns; extract_video_info runs (line 481, not awaited) and the
\* handler goes on to the edit_text of lines 485, 487, 493, 499 or 513
FetchInfo(t) ==
    /\ pc[t] = "edit_fetching"
    /\ \E ok \in BOOLEAN :
        IF ok
        THEN \E m \in MetaOutcomes :
               LET vi == extract_video_info(m)
               IN  /\ video_info' = [video_info EXCEPT ![t] = vi]
                   /\ hist' = [hist EXCEPT ![t] =
                                 IF AfterInfo(vi) = "fault"
                                 THEN FaultHist([@ EXCEPT !.metaCalls = @ + 1])
                                 ELSE [@ EXCEPT !.metaCalls = @ + 1,
                                                !.metaText = m.text]]
                   /\ pc' = [pc EXCEPT ![t] =
                               IF AfterInfo(vi) = "fault" THEN "reply_error"
                               ELSE AfterInfo(vi)]
                   /\ UNCHANGED <<active_downloads, bot_status, preferredquality,
                                  filesys, user_id, audio_file, temp_dir>>
        ELSE Except(t, filesys)

\* video_info.get(key, default)
DictGet(d, key, default) == IF key \in DOMAIN d THEN d[key] ELSE default

\* the text handed to status_msg.edit_text at lines 485, 487, 493, 499
RejectionText(p, vi) ==
    CASE p = "edit_age_restricted" ->
            <<"Age-restricted content", "This video requires cookies.txt setup.">>
      [] p = "edit_meta_error" ->
            <<"Error: ">> \o DictGet(vi, "message", <<"Unknown error">>)
      [] p = "edit_no_info" -> <<"Could not fetch video information.">>
      [] p = "edit_too_long" -> <<"Video is too long (max 30 minutes).">>
      [] OTHER -> <<>>

\* lines 485-490, 493-496, 499-502: the rejection is shown, the entry is
\* deleted (KeyError if it is absent) and handle_url returns through finally
MetaRejected(t) ==
    /\ pc[t] \in {"edit_age_restricted", "edit_meta_error", "edit_no_info", "edit_too_long"}
    /\ \E ok \in BOOLEAN :
        IF ok /\ user_id[t] \in active_downloads
        THEN Finish(t, active_downloads \ {user_id[t]},
                    Published(active_downloads \ {user_id[t]}), filesys,
                    CASE pc[t] = "edit_age_restricted" -> "meta_age_restricted"
                      [] pc[t] = "edit_too_long" -> "too_long"
                      [] OTHER -> "meta_failed",
                    FALSE)
        ELSE Except(t, filesys)

\* the call awaited after download_audio returned ret (lines 519-539)
AfterDownload(fsys, ret) ==
    IF ret = StrResult("age_restricted") THEN "edit_dl_age_restricted"
    ELSE IF ret = StrResult("file_too_large") THEN "edit_too_large"
    ELSE IF ret # None /\ PathExists(fsys, ret) THEN "edit_uploading"
    ELSE "edit_dl_failed"

\* line 513 returns; handle_url makes its temp_dir (line 515) and awaits
\* download_audio, which runs to its return without giving up control
\* (lines 318-376); then the edit_text of line 520, 522, 524 or 539 is awaited
Download(t) ==
    /\ pc[t] = "edit_info"
    /\ \E ok \in BOOLEAN :
        IF ok
        THEN \E x1 \in ExtractOutcomes, x2 \in ExtractOutcomes \cup {NotRun} :
             \E r \in download_audio(DownloadDir(t), x1, x2) :
               LET made == MkDtemp(MkDtemp(filesys, HandlerDir(t)), DownloadDir(t))
                   fsys == [made EXCEPT ![DownloadDir(t)] = r.files]
               IN  /\ r.lowered <=> x2 # NotRun
                   /\ temp_dir' = [temp_dir EXCEPT ![t] = HandlerDir(t)]
                   /\ preferredquality' =
                        IF r.lowered THEN LOWER_QUALITY ELSE preferredquality
                   /\ IF Propagates(r.ret)
                      THEN \* the inner finally (line 543), then the except clause
                           /\ filesys' = RmTree(fsys, HandlerDir(t))
                           /\ audio_file' = audio_file
                           /\ hist' = [hist EXCEPT ![t] =
                                         FaultHist([@ EXCEPT
                                            !.dlCalls = @ + 1,
                                            !.extractCalls = IF r.lowered THEN 2 ELSE 1])]
                           /\ pc' = [pc EXCEPT ![t] = "reply_error"]
                      ELSE /\ filesys' = fsys
                           /\ audio_file' = [audio_file EXCEPT ![t] = r.ret]
                           /\ hist' = [hist EXCEPT
                                         ![t].dlCalls = @ + 1,
                                         ![t].extractCalls = IF r.lowered THEN 2 ELSE 1,
                                         ![t].x1 = x1,
                                         ![t].x2 = x2,
                                         ![t].q1 = preferredquality]
                           /\ pc' = [pc EXCEPT ![t] = AfterDownload(fsys, r.ret)]
                   /\ UNCHANGED <<active_downloads, bot_status, user_id, video_info>>
        ELSE Except(t, filesys)

\* lines 520, 522, 539: the failure is shown; the inner finally removes
\* handle_url's temp_dir and the outer finally releases
DownloadRejected(t) ==
    /\ pc[t] \in {"edit_dl_age_restricted", "edit_too_large", "edit_dl_failed"}
    /\ \E ok \in BOOLEAN :
        IF ok
        THEN Finish(t, active_downloads, bot_status, RmTree(filesys, temp_dir[t]),
                    CASE pc[t] = "edit_dl_age_restricted" -> "dl_age_restricted"
                      [] pc[t] = "edit_too_large" -> "too_large"
                      [] OTHER -> "dl_failed",
                    FALSE)
        ELSE Except(t, RmTree(filesys, temp_dir[t]))

\* line 524 returns; the file is opened and reply_audio (line 527) is awaited
Upload(t) ==
    /\ pc[t] = "edit_uploading"
    /\ \E ok \in BOOLEAN :
        IF ok /\ PathExists(filesys, audio_file[t])
        THEN /\ pc' = [pc EXCEPT ![t] = "reply_audio"]
             /\ hist' = [hist EXCEPT ![t].sendCalls = @ + 1,
                                     ![t].sentSize = SizeOf(filesys, audio_file[t])]
             /\ UNCHANGED <<active_downloads, bot_status, preferredquality, filesys,
                            user_id, video_info, audio_file, temp_dir>>
        ELSE Except(t, RmTree(filesys, temp_dir[t]))

\* line 527 returns; the counter is raised (line 536) and the status
\* message's delete (line 537) is awaited
AudioSent(t) ==
    /\ pc[t] = "reply_audio"
    /\ \E ok \in BOOLEAN :
        IF ok
        THEN /\ pc' = [pc EXCEPT ![t] = "delete_status"]
             /\ bot_status' = [bot_status EXCEPT !.downloads_processed = @ + 1]
             /\ UNCHANGED <<active_downloads, preferredquality, filesys,
                            user_id, video_info, audio_file, temp_dir, hist>>
        ELSE Except(t, RmTree(filesys, temp_dir[t]))

\* line 537 returns; both finally blocks run and handle_url returns
StatusDeleted(t) ==
    /\ pc[t] = "delete_status"
    /\ \E ok \in BOOLEAN :
        IF ok
        THEN Finish(t, active_downloads, bot_status, RmTree(filesys, temp_dir[t]),
                    "delivered", FALSE)
        ELSE Except(t, RmTree(filesys, temp_dir[t]))

\* line 549 returns or raises; the outer finally runs either way, and an
\* exception of line 549 leaves handle_url
ErrorReplied(t) ==
    /\ pc[t] = "reply_error"
    /\ \E ok \in BOOLEAN :
        Finish(t, active_downloads, bot_status, filesys, "fault", ~ok)

Next ==
    \E t \in Tasks :
        \/ Receive(t)
        \/ Rejected(t)
        \/ Processing(t)
        \/ FetchInfo(t)
        \/ MetaRejected(t)
        \/ Download(t)
        \/ DownloadRejected(t)
        \/ Upload(t)
        \/ AudioSent(t)
        \/ StatusDeleted(t)
        \/ ErrorReplied(t)

Spec == Init /\ [][Next]_vars

\* a run that has started goes on: the call it awaits returns or raises, and
\* the event loop resumes the coroutine
Progress(t) ==
    \/ Rejected(t)
    \/ Processing(t)
    \/ FetchInfo(t)
    \/ MetaRejected(t)
    \/ Download(t)
    \/ DownloadRejected(t)
    \/ Upload(t)
    \/ AudioSent(t)
    \/ StatusDeleted(t)
    \/ ErrorReplied(t)

\* the specification under the assumption that every awaited call ends
FairSpec == Spec /\ \A t \in Tasks : WF_vars(Progress(t))

(* ---------------------------------------------------------------------- *)
(* Properties                                                              *)
(* ---------------------------------------------------------------------- *)
\* run t is between acquiring the guard and releasing it
Holding(t) == hist[t].acquired /\ pc[t] # "done"

\* run t takes a step
Moves(t) == pc'[t] # pc[t]

\* nothing outside the run's own control state changes
NoSideEffects ==
    /\ active_downloads' = active_downloads
    /\ bot_status' = bot_status
    /\ preferredquality' = preferredquality
    /\ filesys' = filesys
    /\ video_info' = video_info
    /\ audio_file' = audio_file

NoFetcherCalled(t) ==
    /\ hist[t].metaCalls = 0
    /\ hist[t].dlCalls = 0
    /\ hist[t].extractCalls = 0
    /\ hist[t].sendCalls = 0

\* C1: for every requester at most one run is between acquire and release, that
\* run is marked in active_downloads, and a request of a requester who is held
\* (authorized, with a valid URL) is answered "download already in progress".
C1_SingleFlight ==
    /\ [](\A t1, t2 \in Tasks :
            t1 # t2 /\ Holding(t1) /\ Holding(t2) => user_id[t1] # user_id[t2])
    /\ [](\A t \in Tasks : Holding(t) => user_id[t] \in active_downloads)
    /\ [][\A t \in Tasks :
            pc[t] = "idle" /\ Moves(t) /\ user_id'[t] \in active_downloads
            /\ pc'[t] \notin {"reply_unauthorized", "reply_invalid"}
            => pc'[t] = "reply_busy"]_vars

C1_Witness ==
    \E t1, t2 \in Tasks :
        /\ t1 # t2
        /\ Holding(t1)
        /\ pc[t2] = "reply_busy"
        /\ user_id[t1] = user_id[t2]

\* C2: the step that ends a run which acquired the guard leaves the run's
\* requester out of active_downloads, whichever exit the run takes.
C2_ReleasedOnEveryExit ==
    [][\A t \in Tasks :
        hist[t].acquired /\ pc[t] # "done" /\ pc'[t] = "done"
        => user_id[t] \notin active_downloads']_vars

C2_Witness ==
    \E t1, t2 \in Tasks :
        /\ pc[t1] = "done" /\ hist[t1].acquired /\ hist[t1].exit = "delivered"
        /\ pc[t2] = "done" /\ hist[t2].acquired /\ hist[t2].exit = "fault"
        /\ hist[t2].raised
        /\ active_downloads = {}

\* C3: once a run has ended, the directory its download_audio call made no
\* longer exists.
C3_ScratchRemoved ==
    \A t \in Tasks : pc[t] = "done" => DownloadDir(t) \notin DOMAIN filesys

\* C4: after a first-tier artifact above the limit a second extraction runs;
\* a second-tier artifact within the limit is returned as the result and goes
\* to delivery, and one above the limit gives "file_too_large".
C4_SizeFallback ==
    \A t \in Tasks :
        hist[t].x1.kind = "file" /\ hist[t].x1.size > MAX_FILE_SIZE
        => /\ hist[t].extractCalls = 2
           /\ hist[t].x2.kind = "file" /\ hist[t].x2.size <= MAX_FILE_SIZE
              => /\ audio_file[t] =
                      [tag |-> "path", dir |-> DownloadDir(t), name |-> "compressed_title.mp3"]
                 /\ pc[t] \in {"edit_uploading", "reply_audio", "delete_status"}
           /\ hist[t].x2.kind = "file" /\ hist[t].x2.size > MAX_FILE_SIZE
              => audio_file[t] = StrResult("file_too_large")

\* C5: when download_audio has returned a path, the file is in the scratch
\* directory and is the only file there.
C5_ArtifactKept ==
    \A t \in Tasks :
        pc[t] \in {"edit_uploading", "edit_dl_failed"} /\ IsPath(audio_file[t])
        => /\ PathExists(filesys, audio_file[t])
           /\ \A f \in filesys[audio_file[t].dir] : f.name = audio_file[t].name

\* C6: a run whose metadata reports more than 1800 seconds is rejected and
\* never calls download_audio; a duration of exactly 1800 seconds is not
\* rejected as too long.
C6_DurationPolicy ==
    \A t \in Tasks :
        "duration" \in DOMAIN video_info[t]
        => /\ video_info[t].duration > 1800
              => /\ hist[t].dlCalls = 0
                 /\ hist[t].sendCalls = 0
                 /\ pc[t] \in {"edit_too_long", "reply_error"}
           /\ video_info[t].duration = 1800 => pc[t] # "edit_too_long"

C6_Witness ==
    \E t1, t2 \in Tasks :
        /\ "duration" \in DOMAIN video_info[t1]
        /\ video_info[t1].duration = 1800
        /\ hist[t1].dlCalls = 1
        /\ "duration" \in DOMAIN video_info[t2]
        /\ video_info[t2].duration = 1801
        /\ pc[t2] = "edit_too_long"

\* C7: a file handed to reply_audio is at most 50 MiB, and a first-tier
\* artifact of exactly 50 MiB is returned without a second extraction.
C7_DeliveredWithinLimit ==
    \A t \in Tasks :
        /\ hist[t].sendCalls > 0 => hist[t].sentSize <= 50 * 1024 * 1024
        /\ pc[t] \in {"reply_audio", "delete_status"}
           => /\ PathExists(filesys, audio_file[t])
              /\ SizeOf(filesys, audio_file[t]) <= 50 * 1024 * 1024
        /\ hist[t].x1.kind = "file" /\ hist[t].x1.size = 50 * 1024 * 1024
           => /\ hist[t].extractCalls = 1
              /\ audio_file[t] =
                   [tag |-> "path", dir |-> DownloadDir(t), name |-> "title.mp3"]

C7_Witness ==
    \E t \in Tasks :
        /\ pc[t] = "reply_audio"
        /\ hist[t].sendCalls = 1
        /\ hist[t].sentSize = 50 * 1024 * 1024
        /\ hist[t].extractCalls = 1

\* the extraction error texts that tell of a sign-in or age restriction
RestrictionTexts == {ErrSignIn, ErrAgeRestricted}

\* C8: an extraction error that tells of a sign-in or age restriction gives
\* the age-restricted outcome at the metadata fetch, at the first download
\* attempt and at the lower-quality attempt.
C8_AgeRestrictedClassified ==
    \A t \in Tasks :
        /\ hist[t].metaText \in RestrictionTexts => pc[t] = "edit_age_restricted"
        /\ hist[t].x1.kind = "raise" /\ hist[t].x1.text \in RestrictionTexts
           => audio_file[t] = StrResult("age_restricted")
        /\ hist[t].x2.kind = "raise" /\ hist[t].x2.text \in RestrictionTexts
           => audio_file[t] = StrResult("age_restricted")

\* C9: the steps of a request answered "download already in progress" change
\* nothing but that request's own position: active_downloads keeps the entry
\* of the run in flight, and no fetcher or delivery call is made.
C9_BusyNoSideEffects ==
    /\ [][\A t \in Tasks :
            Moves(t) /\ (pc'[t] = "reply_busy" \/ pc[t] = "reply_busy")
            => NoSideEffects /\ NoFetcherCalled(t)' /\ ~hist'[t].acquired]_vars
    /\ [](\A t \in Tasks : hist[t].exit = "busy" => ~hist[t].acquired)

C9_Witness ==
    \E t1, t2 \in Tasks :
        /\ t1 # t2
        /\ pc[t2] = "done" /\ hist[t2].exit = "busy"
        /\ Holding(t1)
        /\ user_id[t1] = user_id[t2]
        /\ user_id[t1] \in active_downloads

\* C10: a request of a requester outside the allow-list, or with a text the
\* URL validator refuses, never acquires, and its steps leave active_downloads
\* alone and make no fetcher call.
C10_RejectedBeforeAcquire ==
    /\ [][\A t \in Tasks :
            Moves(t) /\ ({pc[t], pc'[t]} \cap {"reply_unauthorized", "reply_invalid"} # {})
            => NoSideEffects /\ NoFetcherCalled(t)' /\ ~hist'[t].acquired]_vars
    /\ [](\A t \in Tasks :
            pc[t] # "idle" /\ user_id[t] \notin {"u1", "u2"}
            => /\ ~hist[t].acquired
               /\ pc[t] \in {"reply_unauthorized", "done"}
               /\ pc[t] = "done" => hist[t].exit = "unauthorized")

C10_Witness ==
    \E t1, t2 \in Tasks :
        /\ pc[t1] = "done" /\ hist[t1].exit = "unauthorized" /\ user_id[t1] = "u3"
        /\ pc[t2] = "done" /\ hist[t2].exit = "invalid"
        /\ active_downloads = {}

\* C11: on the rejection paths that delete the entry themselves (lines 488,
\* 494, 500) and then pass the finally block, the second release raises
\* nothing, the requester is out of active_downloads afterwards and every
\* other requester's entry is kept.
C11_IdempotentRelease ==
    [][\A t \in Tasks :
        /\ pc[t] \in {"edit_age_restricted", "edit_meta_error", "edit_no_info",
                      "edit_too_long"}
        /\ pc'[t] = "done"
        => /\ ~hist'[t].raised
           /\ user_id[t] \notin active_downloads'
           /\ active_downloads' = active_downloads \ {user_id[t]}]_vars

C11_Witness ==
    \E t1, t2 \in Tasks :
        /\ pc[t1] = "done" /\ hist[t1].exit = "too_long" /\ ~hist[t1].raised
        /\ user_id[t1] \notin active_downloads
        /\ Holding(t2)
        /\ user_id[t2] \in active_downloads

\* C12: if every awaited call returns or raises, a requester who is in
\* active_downloads is out of it later on; and a request is answered busy
\* only while a run of the same requester is in flight, so after a run has
\* ended a new request of its requester acquires.
C12_NeverLockedOut ==
    /\ \A u \in Users : (u \in active_downloads) ~> (u \notin active_downloads)
    /\ [][\A t \in Tasks :
            pc[t] = "idle" /\ pc'[t] = "reply_busy"
            => \E t2 \in Tasks \ {t} : Holding(t2) /\ user_id[t2] = user_id'[t]]_vars

C12_Witness ==
    \E t1, t2 \in Tasks :
        /\ pc[t1] = "done" /\ hist[t1].acquired
        /\ user_id[t2] = user_id[t1]
        /\ pc[t2] = "reply_processing"
        /\ hist[t2].acquired

\* C13: a run that acquired the guard never ends with an exception leaving
\* handle_url: every fault after the acquire is caught and answered with an
\* error message.
C13_FaultsCaught ==
    \A t \in Tasks : pc[t] = "done" /\ hist[t].acquired => ~hist[t].raised

\* C14: a step that calls download_audio never ends in the except clause of
\* handle_url: an error raised by the extraction, at either tier, comes back
\* as None or "age_restricted".
C14_ExtractionErrorsTyped ==
    [][\A t \in Tasks :
        hist'[t].dlCalls > hist[t].dlCalls
        => /\ ~hist'[t].fault
           /\ pc'[t] \in {"edit_dl_age_restricted", "edit_too_large",
                          "edit_uploading", "edit_dl_failed"}
           /\ hist'[t].x1.kind = "raise" \/ hist'[t].x2.kind = "raise"
              => /\ audio_file'[t] \in {None, StrResult("age_restricted")}
                 /\ pc'[t] \in {"edit_dl_age_restricted", "edit_dl_failed"}]_vars

C14_Witness ==
    \E t1, t2 \in Tasks :
        /\ hist[t1].x1.kind = "raise"
        /\ pc[t1] = "edit_dl_age_restricted"
        /\ hist[t2].x1.kind = "file"
        /\ hist[t2].x2.kind = "raise"
        /\ pc[t2] = "edit_dl_failed"

\* C15: a request is answered busy only if its own requester is in
\* active_downloads; a request of a requester who is not there (authorized,
\* with a valid URL) acquires, however many other requesters are held.
C15_KeyedOnRequester ==
    [][\A t \in Tasks :
        pc[t] = "idle" /\ Moves(t)
        => /\ pc'[t] = "reply_busy" => user_id'[t] \in active_downloads
           /\ user_id'[t] \notin active_downloads
              /\ pc'[t] \notin {"reply_unauthorized", "reply_invalid"}
              => /\ pc'[t] = "reply_processing"
                 /\ active_downloads' = active_downloads \cup {user_id'[t]}]_vars

C15_Witness ==
    \E t1, t2 \in Tasks :
        /\ Holding(t1) /\ Holding(t2)
        /\ user_id[t1] = "u1" /\ user_id[t2] = "u2"
        /\ active_downloads = {"u1", "u2"}

\* C16: the metadata fetch and the audio fetch are points where the run
\* gives up control: the step that enters the call ends with the run waiting
\* in it, its result not yet taken.
C16_FetchesYield ==
    [][\A t \in Tasks :
        /\ hist'[t].metaCalls > hist[t].metaCalls => DOMAIN video_info'[t] = {}
        /\ hist'[t].dlCalls > hist[t].dlCalls
           => hist'[t].extractCalls = 0 /\ audio_file'[t] = None]_vars

\* C17: within a run the metadata fetch comes after the acquire, the audio
\* fetch after a metadata fetch that gave a duration within the limit, the
\* delivery after an audio fetch that returned a path, and the requester
\* stays in active_downloads until the run is over.
C17_StepOrder ==
    \A t \in Tasks :
        /\ hist[t].metaCalls > 0 => hist[t].acquired
        /\ hist[t].dlCalls > 0
           => /\ hist[t].metaCalls = 1
              /\ "duration" \in DOMAIN video_info[t]
              /\ video_info[t].duration \in 0..1800
        /\ hist[t].sendCalls > 0
           => /\ hist[t].dlCalls = 1
              /\ IsPath(audio_file[t])
        /\ hist[t].metaCalls + hist[t].dlCalls + hist[t].sendCalls > 0
           => user_id[t] \in active_downloads

C17_Witness ==
    \E t \in Tasks :
        /\ pc[t] = "delete_status"
        /\ hist[t].metaCalls = 1
        /\ hist[t].dlCalls = 1
        /\ hist[t].sendCalls = 1
        /\ user_id[t] \in active_downloads

\* C18: in one run the metadata fetch is called at most once, the extraction
\* at most twice and the second time only after a first artifact above the
\* limit, and reply_audio at most once, also after a failed delivery.
C18_NoRetry ==
    \A t \in Tasks :
        /\ hist[t].metaCalls <= 1
        /\ hist[t].dlCalls <= 1
        /\ hist[t].extractCalls <= 2
        /\ hist[t].sendCalls <= 1
        /\ hist[t].x1.kind # "notrun"
           => (hist[t].extractCalls = 2
               <=> hist[t].x1.kind = "file" /\ hist[t].x1.size > 50 * 1024 * 1024)

C18_Witness ==
    \E t1, t2 \in Tasks :
        /\ pc[t1] = "reply_error" /\ hist[t1].sendCalls = 1
        /\ hist[t2].extractCalls = 2 /\ hist[t2].x2.kind = "file"

\* C19: every first-tier extraction runs with preferredquality 192.
C19_FirstTierQuality ==
    \A t \in Tasks : hist[t].x1.kind # "notrun" => hist[t].q1 = 192

\* C20: a metadata failure that is no age restriction gives a dict carrying
\* the raw error text, the message shown contains that text and differs from
\* the age-restricted message, and no download is made on either failure.
C20_MetaFailureMessage ==
    \A t \in Tasks :
        /\ pc[t] = "edit_meta_error"
           => /\ video_info[t].error = hist[t].metaText
              /\ \A i \in DOMAIN hist[t].metaText :
                    Contains(RejectionText(pc[t], video_info[t]), hist[t].metaText[i])
              /\ RejectionText(pc[t], video_info[t])
                    # RejectionText("edit_age_restricted", video_info[t])
        /\ pc[t] \in {"edit_meta_error", "edit_age_restricted"}
           => hist[t].dlCalls = 0

\* C21: wherever a run waits or has ended, bot_status["active_downloads"] is
\* the number of requesters in active_downloads, and it is 0 when no run
\* that acquired the guard is still under way.
C21_CounterMatchesHeld ==
    /\ bot_status.active_downloads = Cardinality(active_downloads)
    /\ (\A t \in Tasks : ~Holding(t)) => bot_status.active_downloads = 0

C21_Witness ==
    \E t1, t2 \in Tasks :
        /\ pc[t1] = "done" /\ hist[t1].acquired
        /\ Holding(t2)
        /\ active_downloads = {user_id[t2]}
        /\ bot_status.active_downloads = 1

\* the run of slot t has put its text through _is_valid_youtube_url
Validated(t) == pc[t] \in {"reply_invalid", "reply_busy", "reply_processing"}

\* what follows "/watch?v=" in a watch URL
WatchIdentifier(url) == SubSeq(url.rest, Len(SlashWatch) + 1, Len(url.rest))

\* C22: the validator accepts the video-host and music-host URLs with an
\* 11-character identifier and refuses a text that is no URL, a watch URL
\* whose identifier is missing or shorter or longer than 11 characters, and
\* a URL of the host that carries no identifier.
C22_ValidatorExact ==
    \A t \in Tasks :
        Validated(t)
        => /\ hist[t].url \in {UrlWatch, UrlMusic, UrlYoutuBe} => pc[t] # "reply_invalid"
           /\ hist[t].url = UrlNotAUrl => pc[t] = "reply_invalid"
           /\ HasPrefixAt(hist[t].url.rest, 1, SlashWatch)
              /\ Len(WatchIdentifier(hist[t].url)) # 11
              => pc[t] = "reply_invalid"
           /\ hist[t].url = UrlFeed => pc[t] = "reply_invalid"

====
